---- MODULE Spec2Model ----
(***************************************************************************)
(* Library-management REST API: the Prisma schema (Book, User,             *)
(* Transactions), the express router of the book routes and the            *)
(* express-validator chain of the registration route, as a state machine.  *)
(* A request is held in a slot of `req` and walks the middleware chain of  *)
(* its route one handler at a time; controllers act on the three tables.   *)
(***************************************************************************)
EXTENDS Naturals, Sequences, FiniteSets, TLC

VARIABLES
    Book,          \* table Book: id -> [isbn, isAvailable, borrowedCount]
    bookSeq,       \* autoincrement sequence of Book.id
    User,          \* table User: the set of ids
    userSeq,       \* autoincrement sequence of User.id
    Transactions,  \* table Transactions: id (the index) -> [userId, bookId, returnedAt]
    req            \* the request each client has in flight, and its response

vars == <<Book, bookSeq, User, userSeq, Transactions, req>>
db == <<Book, bookSeq, User, userSeq, Transactions>>

(***************************************************************************)
(* Bounds of the model.                                                    *)
(***************************************************************************)
MaxPwLen == 8
MaxBooks == 1
MaxCatalog == 2
MaxUsers == 1
MaxTx == 2

Clients == {"c1", "c2"}
NULL == "NULL"
Isbns == {"9780743273565", "9780141439518"}
NOW == "now"

(***************************************************************************)
(* Prisma schema.                                                          *)
(***************************************************************************)
\* The default of a column that starts a book as borrowed.
DefaultIsAvailableFalse == FALSE

\* Book.isAvailable Boolean @default(true)
DefaultIsAvailable == TRUE
\* Book.borrowedCount Int @default(0)
DefaultBorrowedCount == 0

\* A row whose counter starts at one.
NewBookCountOne(isbn) ==
    [isbn |-> isbn,
     isAvailable |-> DefaultIsAvailable,
     borrowedCount |-> DefaultBorrowedCount + 1]

\* A row of Book as prisma.book.create writes it: the defaults of the schema
\* for the columns the caller does not give.
NewBook(isbn) ==
    [isbn |-> isbn,
     isAvailable |-> DefaultIsAvailable,
     borrowedCount |-> DefaultBorrowedCount]

\* The column without its unique index.
IsbnNeverTaken(isbn, except) == FALSE

\* isbn String? @unique: the index refuses a write that gives row `except`
\* the isbn of another row; a NULL isbn never conflicts.
IsbnTaken(isbn, except) ==
    /\ isbn # NULL
    /\ \E b \in DOMAIN Book : b # except /\ Book[b].isbn = isbn

\* A row of Transactions as prisma.transactions.create writes it:
\* borrowedAt defaults to now(), returnedAt is optional and starts NULL.
NewTransaction(userId, bookId) ==
    [userId |-> userId, bookId |-> bookId, returnedAt |-> NULL]

\* The relation as if no row ever referred to a book.
BookNeverReferenced(id) == FALSE

\* Book @relation(fields: [bookId], references: [id]) with no onDelete: the
\* required relation restricts the delete of a referenced Book row.
BookReferenced(id) ==
    \E t \in 1..Len(Transactions) : Transactions[t].bookId = id

\* User @relation(fields: [userId], references: [id]) with no onDelete.
UserReferenced(id) ==
    \E t \in 1..Len(Transactions) : Transactions[t].userId = id

\* The open transactions of a book: its rows with NULL returnedAt.
OpenTransactions(bookId) ==
    {t \in 1..Len(Transactions) :
        Transactions[t].bookId = bookId /\ Transactions[t].returnedAt = NULL}

\* The table with a unique index on the open transaction of a book.
TransactionInsertUniqueOpen(userId, bookId) ==
    /\ userId \in User
    /\ bookId \in DOMAIN Book
    /\ OpenTransactions(bookId) = {}

\* The insert of a Transactions row is accepted when both foreign keys
\* resolve; the model declares no unique constraint, so nothing else is checked.
TransactionInsertAccepted(userId, bookId) ==
    /\ userId \in User
    /\ bookId \in DOMAIN Book

(***************************************************************************)
(* express-validator: validations/authValidations.ts                       *)
(***************************************************************************)
Lower == {"a"}
Upper == {"A"}
Digit == {"1"}
\* characters of the class [!@#$%^&*(),.?":{}|<>] present in the alphabet
Special == {"!"}
\* a character of no class of the chain
Other == {"-"}
Alphabet == Lower \cup Upper \cup Digit \cup Special \cup Other

MinLength == 8

MsgEmail == "Invalid email format"
MsgLength == "Password should be at least 8 characters long"
MsgLower == "Password should contain at least one lowercase letter"
MsgUpper == "Password should contain at least one uppercase letter"
MsgDigit == "Password should contain at least one digit"
MsgSpecial == "Password should contain at least one special character"
MsgFullName == "Full name is required"
MsgUsername == "Company name is required"

\* .matches(/[class]/): the unanchored pattern matches when some character
\* of the string is in the class.
Matches(s, class) == \E k \in 1..Len(s) : s[k] \in class

\* .isLength({ min })
IsLength(s, min) == Len(s) >= min

\* .isEmail(), on the sample addresses of the model
ValidEmails == {"user@example.com"}
IsEmail(e) == e \in ValidEmails

\* .notEmpty()
NotEmpty(s) == s # ""

\* One validator of a chain: the error it records when it fails, none
\* otherwise. A chain does not bail: every validator runs.
\* An error names the field (path) and carries the message of the failed validator.
Check(ok, path, msg) == IF ok THEN <<>> ELSE <<[path |-> path, msg |-> msg]>>

\* The chain with the digit validator left out.
PasswordChainNoDigit(pw) ==
    Check(IsLength(pw, MinLength), "password", MsgLength)
    \o Check(Matches(pw, Lower), "password", MsgLower)
    \o Check(Matches(pw, Upper), "password", MsgUpper)
    \o Check(Matches(pw, Special), "password", MsgSpecial)

\* The chain with the messages of the two letter validators exchanged.
PasswordChainSwapped(pw) ==
    Check(IsLength(pw, MinLength), "password", MsgLength)
    \o Check(Matches(pw, Lower), "password", MsgUpper)
    \o Check(Matches(pw, Upper), "password", MsgLower)
    \o Check(Matches(pw, Digit), "password", MsgDigit)
    \o Check(Matches(pw, Special), "password", MsgSpecial)

\* body("password") ... : the five validators, each with its own message.
PasswordChain(pw) ==
    Check(IsLength(pw, MinLength), "password", MsgLength)
    \o Check(Matches(pw, Lower), "password", MsgLower)
    \o Check(Matches(pw, Upper), "password", MsgUpper)
    \o Check(Matches(pw, Digit), "password", MsgDigit)
    \o Check(Matches(pw, Special), "password", MsgSpecial)

\* registrationValidation: the errors the four chains record on a body.
registrationValidation(body) ==
    Check(IsEmail(body.email), "email", MsgEmail)
    \o PasswordChain(body.password)
    \o Check(NotEmpty(body.fullName), "fullName", MsgFullName)
    \o Check(NotEmpty(body.username), "username", MsgUsername)

(***************************************************************************)
(* Requests. A slot holds the request a client has in flight: its route,   *)
(* the index i of the next handler of the route's chain (0: none, the      *)
(* slot is free), the step pc of a controller that awaits the data store   *)
(* more than once, the bearer token, the path parameters, the body, the    *)
(* validation errors collected so far, and, once answered, the response:   *)
(* its status and the errors its JSON body carries.                        *)
(***************************************************************************)
NoParams == [id |-> 0, userId |-> 0, bookId |-> 0]
NoBody == [email |-> "", password |-> <<>>, fullName |-> "", username |-> "",
           title |-> "", isbn |-> NULL]

Idle ==
    [route |-> "none", i |-> 0, pc |-> "start", token |-> "none",
     params |-> NoParams, body |-> NoBody, errors |-> <<>>,
     status |-> 0, json |-> <<>>]

Request(route, token, params, body) ==
    [route |-> route, i |-> 1, pc |-> "start", token |-> token,
     params |-> params, body |-> body, errors |-> <<>>,
     status |-> 0, json |-> <<>>]

Tokens == {"missing", "invalid", "expired", "valid"}

(***************************************************************************)
(* The book router: each route's chain of handlers, in the order given to  *)
(* bookRouter.post / put / delete / get.                                   *)
(***************************************************************************)
BookRoutes == {"POST /book/add", "PUT /book/update/:id",
               "DELETE /book/delete/:id", "GET /book/:id",
               "GET /book/borrowed/:id"}

\* The router with isAuthenticated left out of the delete route.
bookRouterDeleteUnguarded(route) ==
    CASE route = "POST /book/add" ->
           <<"addBookValidation", "isAuthenticated",
             "handleValidationErrors", "addBook">>
      [] route = "PUT /book/update/:id" ->
           <<"updateBookValidation", "isAuthenticated",
             "handleValidationErrors", "updateBookDetails">>
      [] route = "DELETE /book/delete/:id" ->
           <<"deleteBookById">>
      [] route = "GET /book/:id" ->
           <<"getBook">>
      [] route = "GET /book/borrowed/:id" ->
           <<"isAuthenticated", "getAllBooksBorrowedByUser">>

\* The router with handleValidationErrors placed before isAuthenticated.
bookRouterGuardFirst(route) ==
    CASE route = "POST /book/add" ->
           <<"addBookValidation", "handleValidationErrors",
             "isAuthenticated", "addBook">>
      [] route = "PUT /book/update/:id" ->
           <<"updateBookValidation", "handleValidationErrors",
             "isAuthenticated", "updateBookDetails">>
      [] route = "DELETE /book/delete/:id" ->
           <<"isAuthenticated", "deleteBookById">>
      [] route = "GET /book/:id" ->
           <<"getBook">>
      [] route = "GET /book/borrowed/:id" ->
           <<"isAuthenticated", "getAllBooksBorrowedByUser">>

bookRouter(route) ==
    CASE route = "POST /book/add" ->
           <<"addBookValidation", "isAuthenticated",
             "handleValidationErrors", "addBook">>
      [] route = "PUT /book/update/:id" ->
           <<"updateBookValidation", "isAuthenticated",
             "handleValidationErrors", "updateBookDetails">>
      [] route = "DELETE /book/delete/:id" ->
           <<"isAuthenticated", "deleteBookById">>
      [] route = "GET /book/:id" ->
           <<"getBook">>
      [] route = "GET /book/borrowed/:id" ->
           <<"isAuthenticated", "getAllBooksBorrowedByUser">>

\* The routers of the auth, user and transaction routes.
OtherRoutes == {"POST /register", "DELETE /user/delete/:id",
                "POST /borrow", "POST /return"}

otherRouter(route) ==
    CASE route = "POST /register" ->
           <<"registrationValidation", "handleValidationErrors", "registerUser">>
      [] route = "DELETE /user/delete/:id" -> <<"deleteUserById">>
      [] route = "POST /borrow" -> <<"borrowBook">>
      [] route = "POST /return" -> <<"returnBook">>

Chain(route) ==
    IF route \in BookRoutes THEN bookRouter(route) ELSE otherRouter(route)

Controllers == {"addBook", "updateBookDetails", "deleteBookById", "getBook",
                "getAllBooksBorrowedByUser", "registerUser", "deleteUserById",
                "borrowBook", "returnBook"}

\* The handler a request is at.
HandlerOf(r) == IF r.i = 0 THEN "none" ELSE Chain(r.route)[r.i]
Handler(c) == HandlerOf(req[c])

\* A request that enters at the controller of its route: one that the
\* middleware before the controller passed (valid token, no error).
Passed(route, params, body) ==
    [Request(route, "valid", params, body) EXCEPT !.i = Len(Chain(route))]

\* next(): the request moves to the next handler of its chain.
CallNext(r) == [r EXCEPT !.i = @ + 1]

\* res.status(status).json(...): the request is answered and its chain
\* stops; the slot keeps the route and the response alone.
Respond(r, status, json) ==
    [Idle EXCEPT !.route = r.route, !.status = status, !.json = json]

Free(c) == req[c].i = 0

SetReq(c, r) == req' = [req EXCEPT ![c] = r]

(***************************************************************************)
(* Middleware.                                                             *)
(***************************************************************************)
MsgTitle == "Title is required"

\* validations/bookValidations: required non-empty string fields.
addBookValidation(body) ==
    Check(NotEmpty(body.title), "title", MsgTitle)

\* On an update every field is optional; one that is given is not empty.
updateBookValidation(body) ==
    Check(body.title = NULL \/ NotEmpty(body.title), "title", MsgTitle)

ValidationRules == {"addBookValidation", "updateBookValidation",
                    "registrationValidation"}

Validate(rules, body) ==
    CASE rules = "addBookValidation" -> addBookValidation(body)
      [] rules = "updateBookValidation" -> updateBookValidation(body)
      [] rules = "registrationValidation" -> registrationValidation(body)

\* A validation chain used as middleware: it records its errors on the
\* request and always calls next().
runValidation(c, r) ==
    /\ SetReq(c, CallNext([r EXCEPT
                  !.errors = @ \o Validate(HandlerOf(r), r.body)]))
    /\ UNCHANGED db

RunValidation(c) ==
    /\ Handler(c) \in ValidationRules
    /\ runValidation(c, req[c])

\* middlewares/auth: a missing, invalid or expired token is answered 401.
Authenticated(r) == r.token = "valid"

IsAuthenticated(c) ==
    /\ Handler(c) = "isAuthenticated"
    /\ SetReq(c, IF Authenticated(req[c])
                 THEN CallNext(req[c])
                 ELSE Respond(req[c], 401, <<>>))
    /\ UNCHANGED db

\* middlewares/validation: answers 400 with the collected errors if there
\* is any, passes the request on unchanged otherwise.
HandleValidationErrors(c) ==
    /\ Handler(c) = "handleValidationErrors"
    /\ SetReq(c, IF req[c].errors # <<>>
                 THEN Respond(req[c], 400, req[c].errors)
                 ELSE CallNext(req[c]))
    /\ UNCHANGED db

(***************************************************************************)
(* Controllers, each an operation of client c on request r. A step is one  *)
(* round trip to the data store with the code around it.                   *)
(***************************************************************************)
FindBookByIsbn(isbn) == {b \in DOMAIN Book : Book[b].isbn = isbn}

\* addBook: findUnique on the isbn (conflict: 400), then create. The create
\* is refused by the unique index when the isbn was taken in between.
addBook(c, r) ==
    IF r.pc = "start"
    THEN /\ SetReq(c, IF r.body.isbn # NULL /\ FindBookByIsbn(r.body.isbn) # {}
                      THEN Respond(r, 400, <<>>)
                      ELSE [r EXCEPT !.pc = "create"])
         /\ UNCHANGED db
    ELSE IF IsbnTaken(r.body.isbn, 0)
         THEN SetReq(c, Respond(r, 500, <<>>)) /\ UNCHANGED db
         ELSE /\ bookSeq' = bookSeq + 1
              /\ Book' = Book @@ (bookSeq' :> NewBook(r.body.isbn))
              /\ SetReq(c, Respond(r, 201, <<>>))
              /\ UNCHANGED <<User, userSeq, Transactions>>

\* updateBookDetails: partial field merge of the row params.id.
updateBookDetails(c, r) ==
    IF r.params.id \notin DOMAIN Book
    THEN SetReq(c, Respond(r, 404, <<>>)) /\ UNCHANGED db
    ELSE IF IsbnTaken(r.body.isbn, r.params.id)
         THEN SetReq(c, Respond(r, 500, <<>>)) /\ UNCHANGED db
         ELSE /\ Book' = [Book EXCEPT ![r.params.id].isbn =
                                IF r.body.isbn = NULL THEN @ ELSE r.body.isbn]
              /\ SetReq(c, Respond(r, 200, <<>>))
              /\ UNCHANGED <<bookSeq, User, userSeq, Transactions>>

\* deleteBookById: a row that Transactions rows refer to is not deleted.
deleteBookById(c, r) ==
    IF r.params.id \notin DOMAIN Book
    THEN SetReq(c, Respond(r, 404, <<>>)) /\ UNCHANGED db
    ELSE IF BookReferenced(r.params.id)
         THEN SetReq(c, Respond(r, 500, <<>>)) /\ UNCHANGED db
         ELSE /\ Book' = [b \in DOMAIN Book \ {r.params.id} |-> Book[b]]
              /\ SetReq(c, Respond(r, 200, <<>>))
              /\ UNCHANGED <<bookSeq, User, userSeq, Transactions>>

getBook(c, r) ==
    /\ SetReq(c, Respond(r, IF r.params.id \in DOMAIN Book THEN 200 ELSE 404, <<>>))
    /\ UNCHANGED db

\* getAllBooksBorrowedByUser: 404 when the user is not found or borrowed nothing.
getAllBooksBorrowedByUser(c, r) ==
    /\ SetReq(c, Respond(r, IF r.params.id \in User /\ UserReferenced(r.params.id)
                            THEN 200 ELSE 404, <<>>))
    /\ UNCHANGED db

registerUser(c, r) ==
    /\ userSeq' = userSeq + 1
    /\ User' = User \cup {userSeq'}
    /\ SetReq(c, Respond(r, 201, <<>>))
    /\ UNCHANGED <<Book, bookSeq, Transactions>>

deleteUserById(c, r) ==
    IF r.params.id \notin User
    THEN SetReq(c, Respond(r, 404, <<>>)) /\ UNCHANGED db
    ELSE IF UserReferenced(r.params.id)
         THEN SetReq(c, Respond(r, 500, <<>>)) /\ UNCHANGED db
         ELSE /\ User' = User \ {r.params.id}
              /\ SetReq(c, Respond(r, 200, <<>>))
              /\ UNCHANGED <<Book, bookSeq, userSeq, Transactions>>

\* borrowBook: a single existence check for an open transaction of the
\* book, then the insert, which marks the book borrowed and counts it.
borrowBook(c, r) ==
    IF r.pc = "start"
    THEN /\ SetReq(c, IF r.params.bookId \notin DOMAIN Book
                         \/ r.params.userId \notin User
                      THEN Respond(r, 404, <<>>)
                      ELSE IF OpenTransactions(r.params.bookId) # {}
                           THEN Respond(r, 400, <<>>)
                           ELSE [r EXCEPT !.pc = "create"])
         /\ UNCHANGED db
    ELSE IF ~TransactionInsertAccepted(r.params.userId, r.params.bookId)
         THEN SetReq(c, Respond(r, 500, <<>>)) /\ UNCHANGED db
         ELSE /\ Transactions' = Append(Transactions,
                      NewTransaction(r.params.userId, r.params.bookId))
              /\ Book' = [Book EXCEPT
                      ![r.params.bookId].isAvailable = FALSE,
                      ![r.params.bookId].borrowedCount = @ + 1]
              /\ SetReq(c, Respond(r, 201, <<>>))
              /\ UNCHANGED <<bookSeq, User, userSeq>>

\* returnBook: sets returnedAt on the open transaction of the user and the
\* book, and flips the book's availability back.
returnBook(c, r) ==
    LET open == {t \in OpenTransactions(r.params.bookId) :
                    Transactions[t].userId = r.params.userId}
    IN  IF open = {}
        THEN SetReq(c, Respond(r, 400, <<>>)) /\ UNCHANGED db
        ELSE /\ \E t \in open :
                  Transactions' = [Transactions EXCEPT ![t].returnedAt = NOW]
             /\ Book' = [Book EXCEPT ![r.params.bookId].isAvailable = TRUE]
             /\ SetReq(c, Respond(r, 200, <<>>))
             /\ UNCHANGED <<bookSeq, User, userSeq>>

\* The controller at the end of a chain.
Controller(c, r) ==
    CASE HandlerOf(r) = "addBook" -> addBook(c, r)
      [] HandlerOf(r) = "updateBookDetails" -> updateBookDetails(c, r)
      [] HandlerOf(r) = "deleteBookById" -> deleteBookById(c, r)
      [] HandlerOf(r) = "getBook" -> getBook(c, r)
      [] HandlerOf(r) = "getAllBooksBorrowedByUser" -> getAllBooksBorrowedByUser(c, r)
      [] HandlerOf(r) = "registerUser" -> registerUser(c, r)
      [] HandlerOf(r) = "deleteUserById" -> deleteUserById(c, r)
      [] HandlerOf(r) = "borrowBook" -> borrowBook(c, r)
      [] HandlerOf(r) = "returnBook" -> returnBook(c, r)

(***************************************************************************)
(* Steps of the requests in flight.                                        *)
(***************************************************************************)
AddBook(c) == Handler(c) = "addBook" /\ addBook(c, req[c])
UpdateBookDetails(c) == Handler(c) = "updateBookDetails" /\ updateBookDetails(c, req[c])
DeleteBookById(c) == Handler(c) = "deleteBookById" /\ deleteBookById(c, req[c])
GetBook(c) == Handler(c) = "getBook" /\ getBook(c, req[c])
GetAllBooksBorrowedByUser(c) ==
    Handler(c) = "getAllBooksBorrowedByUser" /\ getAllBooksBorrowedByUser(c, req[c])
RegisterUser(c) == Handler(c) = "registerUser" /\ registerUser(c, req[c])
BorrowBook(c) == Handler(c) = "borrowBook" /\ borrowBook(c, req[c])

(***************************************************************************)
(* Inputs.                                                                 *)
(***************************************************************************)
BookIds == 1..bookSeq + 1
UserIds == 1..userSeq + 1
Titles == {"", "Dune"}
\* the passwords of n characters: every string over the alphabet up to the
\* minimum length, and beyond it every string over the characters of the
\* four classes
Passwords(n) ==
    [1..n -> IF n <= MinLength THEN Alphabet ELSE Alphabet \ Other]

InFlight(route) == Cardinality({c \in Clients : ~Free(c) /\ req[c].route = route})

\* The autoincrement sequences and the Transactions table are capped: a
\* request that would take them past the bound is not admitted.
Admitted(route) ==
    /\ route = "POST /register" => userSeq + InFlight(route) < MaxUsers
    /\ route = "POST /borrow" => Len(Transactions) + InFlight(route) < MaxTx

\* max is MaxBooks where books are lent, MaxCatalog where they are only kept.
AdmittedAdd(max) == bookSeq + InFlight("POST /book/add") < max

BookBody(title, isbn) == [NoBody EXCEPT !.title = title, !.isbn = isbn]
IdParams(id) == [NoParams EXCEPT !.id = id]
BorrowParams(userId, bookId) ==
    [NoParams EXCEPT !.userId = userId, !.bookId = bookId]

EmptyDb ==
    /\ Book = <<>>
    /\ bookSeq = 0
    /\ User = {}
    /\ userSeq = 0
    /\ Transactions = <<>>

(***************************************************************************)
(* Concurrent clients. A request enters at the controller of its route,    *)
(* having passed the middleware before it, and the controller runs to its  *)
(* first round trip to the data store.                                     *)
(***************************************************************************)
Init ==
    /\ EmptyDb
    /\ req = [c \in Clients |-> Idle]

\* a book given without isbn
ArriveAddBookNoIsbn(c) ==
    /\ Free(c) /\ AdmittedAdd(MaxBooks)
    /\ Controller(c, Passed("POST /book/add", NoParams, BookBody("Dune", NULL)))

ArriveDeleteBook(c) ==
    /\ Free(c)
    /\ \E id \in BookIds :
          Controller(c, Passed("DELETE /book/delete/:id", IdParams(id), NoBody))

ArriveRegister(c) ==
    /\ Free(c) /\ Admitted("POST /register")
    /\ Controller(c, Passed("POST /register", NoParams, NoBody))

ArriveDeleteUser(c) ==
    /\ Free(c)
    /\ \E id \in UserIds :
          Controller(c, Passed("DELETE /user/delete/:id", IdParams(id), NoBody))

ArriveBorrow(c) ==
    /\ Free(c) /\ Admitted("POST /borrow")
    /\ \E u \in UserIds, b \in BookIds :
          Controller(c, Passed("POST /borrow", BorrowParams(u, b), NoBody))

ArriveReturn(c) ==
    /\ Free(c)
    /\ \E u \in UserIds, b \in BookIds :
          Controller(c, Passed("POST /return", BorrowParams(u, b), NoBody))

(***************************************************************************)
(* Spec: books, users, borrowing and returning under concurrent clients.   *)
(***************************************************************************)
Next ==
    \E c \in Clients :
        \/ ArriveAddBookNoIsbn(c)
        \/ AddBook(c)
        \/ ArriveDeleteBook(c)
        \/ ArriveRegister(c)
        \/ ArriveDeleteUser(c)
        \/ ArriveBorrow(c)
        \/ BorrowBook(c)
        \/ ArriveReturn(c)

Spec == Init /\ [][Next]_vars

(***************************************************************************)
(* SpecBooks: the Book table under concurrent add, update and delete. A    *)
(* request that passed the middleware waits at its controller.             *)
(***************************************************************************)
PassAddBook(c) ==
    /\ Free(c) /\ AdmittedAdd(MaxCatalog)
    /\ \E isbn \in Isbns \cup {NULL} :
          SetReq(c, Passed("POST /book/add", NoParams, BookBody("Dune", isbn)))
    /\ UNCHANGED db

PassUpdateBook(c) ==
    /\ Free(c)
    /\ \E id \in BookIds, isbn \in Isbns \cup {NULL} :
          SetReq(c, Passed("PUT /book/update/:id", IdParams(id), BookBody(NULL, isbn)))
    /\ UNCHANGED db

PassDeleteBook(c) ==
    /\ Free(c)
    /\ \E id \in BookIds :
          SetReq(c, Passed("DELETE /book/delete/:id", IdParams(id), NoBody))
    /\ UNCHANGED db

NextBooks ==
    \E c \in Clients :
        \/ PassAddBook(c)
        \/ AddBook(c)
        \/ PassUpdateBook(c)
        \/ UpdateBookDetails(c)
        \/ PassDeleteBook(c)
        \/ DeleteBookById(c)

SpecBooks == Init /\ [][NextBooks]_vars

(***************************************************************************)
(* SpecRouter: one client's requests on the book routes, from the first    *)
(* handler of the chain, with any token and any body.                      *)
(***************************************************************************)
RouterClients == {"c1"}

Receive(c) ==
    /\ Free(c)
    /\ \E route \in BookRoutes, token \in Tokens, id \in BookIds,
          title \in Titles \cup {NULL}, isbn \in Isbns \cup {NULL} :
          /\ route = "POST /book/add" => AdmittedAdd(MaxCatalog)
          /\ SetReq(c,
               CASE route = "POST /book/add" /\ title # NULL ->
                      Request(route, token, NoParams, BookBody(title, isbn))
                 [] route = "PUT /book/update/:id" ->
                      Request(route, token, IdParams(id), BookBody(title, isbn))
                 [] OTHER ->
                      Request(route, token, IdParams(id), NoBody))
    /\ UNCHANGED db

NextRouter ==
    \E c \in RouterClients :
        \/ Receive(c)
        \/ RunValidation(c)
        \/ IsAuthenticated(c)
        \/ HandleValidationErrors(c)
        \/ AddBook(c)
        \/ UpdateBookDetails(c)
        \/ DeleteBookById(c)
        \/ GetBook(c)
        \/ GetAllBooksBorrowedByUser(c)

SpecRouter == Init /\ [][NextRouter]_vars

(***************************************************************************)
(* SpecReg: a client's first request, a registration, the password any     *)
(* string over the alphabet of up to MaxPwLen characters. The request      *)
(* arrives and registrationValidation, the first handler of its chain,     *)
(* runs on it.                                                             *)
(***************************************************************************)
\* The bodies of the registration requests: every other field valid, or
\* every other field invalid.
RegBody(pw, valid) ==
    IF valid
    THEN [NoBody EXCEPT !.email = "user@example.com", !.password = pw,
                        !.fullName = "Ada Lovelace", !.username = "ada"]
    ELSE [NoBody EXCEPT !.email = "user.example.com", !.password = pw]

ArriveRegistration(c) ==
    /\ Free(c) /\ Admitted("POST /register")
    /\ \E n \in 0..MaxPwLen, valid \in BOOLEAN :
          \E pw \in Passwords(n) :
             runValidation(c, Request("POST /register", "none", NoParams,
                                      RegBody(pw, valid)))

NextReg ==
    \E c \in RouterClients :
        \/ req[c] = Idle /\ ArriveRegistration(c)
        \/ HandleValidationErrors(c)
        \/ RegisterUser(c)

SpecReg == Init /\ [][NextReg]_vars

(***************************************************************************)
(* Properties.                                                             *)
(***************************************************************************)
Chars(pw) == {pw[k] : k \in 1..Len(pw)}

\* The composition rule of a password, stated on its length and its set of
\* characters.
MeetsComposition(pw) ==
    /\ Len(pw) > 7
    /\ Chars(pw) \cap Lower # {}
    /\ Chars(pw) \cap Upper # {}
    /\ Chars(pw) \cap Digit # {}
    /\ Chars(pw) \cap Special # {}

\* The messages of the rules a password violates.
ViolatedMessages(pw) ==
    {m \in {MsgLength, MsgLower, MsgUpper, MsgDigit, MsgSpecial} :
        \/ m = MsgLength /\ Len(pw) < 8
        \/ m = MsgLower /\ Chars(pw) \cap Lower = {}
        \/ m = MsgUpper /\ Chars(pw) \cap Upper = {}
        \/ m = MsgDigit /\ Chars(pw) \cap Digit = {}
        \/ m = MsgSpecial /\ Chars(pw) \cap Special = {}}

PasswordErrors(errors) ==
    {errors[k].msg : k \in {j \in 1..Len(errors) : errors[j].path = "password"}}

\* A registration request on which registrationValidation has run.
Validated(c) ==
    /\ req[c].route = "POST /register"
    /\ Handler(c) = "handleValidationErrors"

\* C1: registrationValidation records no error on the password field if and
\* only if the password has at least 8 characters and contains a lowercase
\* letter, an uppercase letter, a digit and a special character.
C1_PasswordAcceptedIffComposition ==
    \A c \in Clients :
        Validated(c) =>
            (PasswordErrors(req[c].errors) = {}
                <=> MeetsComposition(req[c].body.password))

\* C1 witness: a password of 8 characters of the four classes, validated
\* with no error on the field.
C1_Witness ==
    \E c \in Clients :
        /\ Validated(c)
        /\ Len(req[c].body.password) = 8
        /\ MeetsComposition(req[c].body.password)
        /\ PasswordErrors(req[c].errors) = {}

\* C2: a registration whose password does not meet the composition rule is
\* answered 400 with a message on the password field, and every password
\* message the response carries is the message of a rule the password violates.
C2_MessagesNameViolatedRules ==
    [][\A c \in Clients :
          (Validated(c) /\ req'[c] # req[c]) =>
              /\ ~MeetsComposition(req[c].body.password) =>
                    /\ req'[c].status = 400
                    /\ PasswordErrors(req'[c].json) # {}
              /\ PasswordErrors(req'[c].json)
                    \subseteq ViolatedMessages(req[c].body.password)
              /\ req'[c].status = 400 => req'[c].json # <<>>]_vars

\* C2 witness: a 400 response whose password messages are the digit message
\* and the special character message alone.
C2_Witness ==
    \E c \in Clients :
        /\ req[c].route = "POST /register"
        /\ req[c].status = 400
        /\ PasswordErrors(req[c].json) = {MsgDigit, MsgSpecial}

\* The request of client c is answered in this step.
Answered(c) == ~Free(c) /\ req'[c].i = 0

\* C3: on POST /book/add and PUT /book/update/:id the controller is invoked
\* only for an authenticated request with no collected validation error, on
\* DELETE /book/delete/:id and GET /book/borrowed/:id only for an
\* authenticated request; every step that changes the Book table is the
\* step of a controller on an authenticated request.
C3_ControllerOnlyAfterGuards ==
    /\ [](\A c \in Clients :
            /\ Handler(c) \in {"addBook", "updateBookDetails"} =>
                  req[c].token = "valid" /\ req[c].errors = <<>>
            /\ Handler(c) \in {"deleteBookById", "getAllBooksBorrowedByUser"} =>
                  req[c].token = "valid")
    /\ [][Book' # Book =>
            \E c \in Clients :
               /\ req[c].token = "valid"
               /\ Handler(c) \in {"addBook", "updateBookDetails", "deleteBookById"}
               /\ req'[c] # req[c]]_vars

\* C3 witness: a delete request without a valid token was answered 401 and
\* the books are all still there.
C3_Witness ==
    \E c \in Clients :
        /\ req[c].route = "DELETE /book/delete/:id"
        /\ req[c].status = 401
        /\ DOMAIN Book = 1..bookSeq
        /\ bookSeq > 0

\* C9: on POST /book/add and PUT /book/update/:id the handlers run in the
\* order validation rules, isAuthenticated, handleValidationErrors,
\* controller; an unauthenticated request with an invalid body is answered
\* 401, and handleValidationErrors answers 400 only to an authenticated request.
C9_AuthBeforeValidationGuard ==
    /\ [](\A c \in Clients :
            req[c].route \in {"POST /book/add", "PUT /book/update/:id"} =>
               /\ Handler(c) \in ValidationRules => req[c].i = 1
               /\ Handler(c) = "isAuthenticated" => req[c].i = 2
               /\ Handler(c) = "handleValidationErrors" => req[c].i = 3
               /\ Handler(c) \in Controllers => req[c].i = 4)
    /\ [][\A c \in Clients :
            (req[c].route \in {"POST /book/add", "PUT /book/update/:id"}
               /\ Answered(c)) =>
               /\ (req[c].token # "valid" /\ req[c].errors # <<>>) =>
                     req'[c].status = 401
               /\ (Handler(c) = "handleValidationErrors" /\ req'[c].status = 400) =>
                     req[c].token = "valid"]_vars

\* C9 witness: a request with an invalid body and no valid token has passed
\* the validation rules and is at isAuthenticated.
C9_Witness ==
    \E c \in Clients :
        /\ req[c].route = "POST /book/add"
        /\ Handler(c) = "isAuthenticated"
        /\ req[c].errors # <<>>
        /\ req[c].token = "expired"

RowsOfBook(b) == {t \in 1..Len(Transactions) : Transactions[t].bookId = b}
Open(b) == {t \in RowsOfBook(b) : Transactions[t].returnedAt = NULL}

\* C4: every book has at most one open transaction, and is available if
\* and only if it has none.
C4_OneOpenTransactionPerBook ==
    \A b \in DOMAIN Book :
        /\ Cardinality(Open(b)) <= 1
        /\ Book[b].isAvailable <=> Open(b) = {}

\* A row was appended to Transactions in this step.
Inserted == Len(Transactions') # Len(Transactions)
\* Row t was changed in this step.
Changed(t) == Transactions'[t] # Transactions[t]

\* C5: a book is Available or Borrowed and a new book is Available; the
\* step that borrows creates exactly one transaction, with NULL returnedAt,
\* and leaves its book not available; the step that returns sets returnedAt
\* on one open transaction, creates none, and leaves its book available;
\* the flag changes in no other step.
C5_BorrowReturnTransitions ==
    /\ [](\A b \in DOMAIN Book : Book[b].isAvailable \in BOOLEAN)
    /\ [][/\ \A b \in DOMAIN Book' \ DOMAIN Book : Book'[b].isAvailable = TRUE
          /\ Inserted =>
                /\ Len(Transactions') = Len(Transactions) + 1
                /\ SubSeq(Transactions', 1, Len(Transactions)) = Transactions
                /\ Transactions'[Len(Transactions')].returnedAt = NULL
                /\ Transactions'[Len(Transactions')].bookId \in DOMAIN Book'
                /\ Book'[Transactions'[Len(Transactions')].bookId].isAvailable = FALSE
          /\ \A t \in 1..Len(Transactions) :
                Changed(t) =>
                   /\ ~Inserted
                   /\ Transactions[t].returnedAt = NULL
                   /\ Transactions'[t] = [Transactions[t] EXCEPT !.returnedAt = NOW]
                   /\ \A u \in 1..Len(Transactions) : Changed(u) => u = t
                   /\ Book'[Transactions[t].bookId].isAvailable = TRUE
          /\ \A b \in DOMAIN Book \cap DOMAIN Book' :
                Book'[b].isAvailable # Book[b].isAvailable =>
                   IF Book[b].isAvailable
                   THEN Inserted /\ Transactions'[Len(Transactions')].bookId = b
                   ELSE \E t \in RowsOfBook(b) : Changed(t)]_vars

\* C5 witness: a book was borrowed and returned.
C5_Witness ==
    \E t \in 1..Len(Transactions) :
        /\ Transactions[t].returnedAt # NULL
        /\ Book[Transactions[t].bookId].isAvailable
        /\ Open(Transactions[t].bookId) = {}

\* C6: borrowedCount starts at 0, never decreases, changes only in a step
\* that creates a transaction, and always is the number of Transactions
\* rows of the book.
C6_BorrowedCountCountsTransactions ==
    /\ [](\A b \in DOMAIN Book :
            Book[b].borrowedCount = Cardinality(RowsOfBook(b)))
    /\ [][/\ \A b \in DOMAIN Book' \ DOMAIN Book : Book'[b].borrowedCount = 0
          /\ \A b \in DOMAIN Book \cap DOMAIN Book' :
                /\ Book'[b].borrowedCount >= Book[b].borrowedCount
                /\ ~Inserted => Book'[b].borrowedCount = Book[b].borrowedCount]_vars

\* C6 witness: a book borrowed twice, its first transaction returned.
C6_Witness ==
    \E b \in DOMAIN Book :
        /\ Book[b].borrowedCount = 2
        /\ \E t \in RowsOfBook(b) : Transactions[t].returnedAt # NULL

Duplicate(isbn) == isbn # NULL /\ \E b \in DOMAIN Book : Book[b].isbn = isbn

C8_DoubleBorrowNotPrevented ==
    [][\A c \in Clients :
          /\ (/\ Handler(c) = "borrowBook" /\ req[c].pc = "create"
              /\ req'[c] # req[c]
              /\ req[c].params.bookId \in DOMAIN Book
              /\ req[c].params.userId \in User) =>
                 /\ req'[c].status = 201
                 /\ Transactions' = Append(Transactions,
                        [userId |-> req[c].params.userId,
                         bookId |-> req[c].params.bookId,
                         returnedAt |-> NULL])
          /\ (Free(c) /\ req'[c].route = "POST /borrow" /\ req'[c] # req[c]) =>
                 IF req'[c].i # 0
                 THEN Open(req'[c].params.bookId) = {}
                 ELSE /\ req'[c].status \in {400, 404}
                      /\ req'[c].status = 400 =>
                            \E b \in DOMAIN Book : Open(b) # {}
                      /\ UNCHANGED db]_vars

\* C8 witness: both clients' borrow requests succeeded and a book has two
\* open transactions.
C8_Witness ==
    /\ \A c \in Clients : req[c].route = "POST /borrow" /\ req[c].status = 201
    /\ \E b \in DOMAIN Book : Cardinality(Open(b)) = 2

\* C10: every Transactions row refers to a Book row and a User row that
\* exist; no step removes or re-targets a Transactions row, and no step
\* removes a book or a user that a Transactions row refers to.
C10_ReferentialIntegrity ==
    /\ [](\A t \in 1..Len(Transactions) :
            /\ Transactions[t].bookId \in DOMAIN Book
            /\ Transactions[t].userId \in User)
    /\ [][/\ Len(Transactions') >= Len(Transactions)
          /\ \A t \in 1..Len(Transactions) :
                /\ Transactions'[t].bookId = Transactions[t].bookId
                /\ Transactions'[t].userId = Transactions[t].userId
                /\ Transactions[t].bookId \in DOMAIN Book'
                /\ Transactions[t].userId \in User']_vars

\* C10 witness: the delete of a book that has a transaction, though a
\* returned one, was refused.
C10_Witness ==
    /\ \E c \in Clients :
          req[c].route = "DELETE /book/delete/:id" /\ req[c].status = 500
    /\ Transactions # <<>>
    /\ \A t \in 1..Len(Transactions) : Transactions[t].returnedAt # NULL

====
